---- MODULE Spec2Model ----
(***************************************************************************)
(* A model of realesrgan/utils.py: RealESRGANer (weight loading, padding,  *)
(* direct and tiled inference, output rescale), PrefetchReader and         *)
(* IOConsumer.                                                             *)
(*                                                                         *)
(* Images are records [h, w, px] with px a function on <<row, col>>.  The  *)
(* input image is the most general one: the pixel at <<y, x>> holds the    *)
(* number y*w + x + 1, so all pixels are distinct and every other image is *)
(* a relabelling of it.  The network net_g is the most general local       *)
(* operator of receptive radius `radius`: an output pixel records its      *)
(* sub-pixel phase and the whole input window it can see (Pad where the    *)
(* window leaves the tensor it was given), so any network with that        *)
(* receptive field is a function of this one.                              *)
(***************************************************************************)
EXTENDS Integers, Sequences, FiniteSets, TLC

\* ---------------------------------------------------------------- bounds
MaxDim == 2
MaxScale == 3
MaxPrePad == 1
MaxTile == 2
MaxTilePad == 1
MaxRadius == 1
MaxFaults == 1
MaxOutNum == 9
MaxImgs == 3
MaxDepth == 2
MaxPulls == 5
MaxWorkers == 2
MaxItems == 3
MaxIoQueue == 2
MaxParams == 2
MaxVal == 2
MaxWeight == 2

\* outscale is a float in the code; the model draws it from the multiples of
\* 1/OutDen, which binary floating point represents (and multiplies) exactly.
OutDen == 4

Max(a, b) == IF a >= b THEN a ELSE b
Min(a, b) == IF a <= b THEN a ELSE b

VARIABLES
    \* RealESRGANer configuration (set by __init__)
    scale, tile_size, tile_pad, pre_pad, outscale, backend, radius, mod_scale,
    \* how many of its calls the backend fails with a RuntimeError
    fault_budget,
    \* RealESRGANer.enhance
    pc, err, h_input, w_input, img, mod_pad_h, mod_pad_w, output,
    tiles_x, tiles_y, tx, ty, output_tile, cover, faulted, out_h, out_w,
    \* PrefetchReader and the thread that iterates it
    img_list, num_prefetch_queue, que, rpc, ri, cpc, pulls, after_end,
    yielded, stops, late_yield,
    \* IOConsumer workers, their shared queue and the thread that feeds it
    workers, n_items, n_quits, to_put, io_queue, wpc, msg, written,
    quit_pulled,
    \* weight loading in RealESRGANer.__init__
    file_a, file_b, dni_weight, net_a, dpc, todo, keyname, loaded

cfgvars == <<scale, tile_size, tile_pad, pre_pad, outscale, backend, radius,
             fault_budget>>
runvars == <<pc, err, h_input, w_input, img, mod_scale, mod_pad_h, mod_pad_w,
             output, tiles_x, tiles_y, tx, ty, output_tile, cover, faulted,
             out_h, out_w>>
enhancevars == <<cfgvars, runvars>>
readervars == <<img_list, num_prefetch_queue, que, rpc, ri, cpc, pulls,
                after_end, yielded, stops, late_yield>>
writervars == <<workers, n_items, n_quits, to_put, io_queue, wpc, msg, written,
                quit_pulled>>
loadvars == <<file_a, file_b, dni_weight, net_a, dpc, todo, keyname, loaded>>
vars == <<enhancevars, readervars, writervars, loadvars>>

\* ------------------------------------------------------------ pixel values
\* what a window shows beyond the border of the tensor the network is given
Pad == 0
\* an output pixel is a tuple: its sub-pixel phase, then the window it was
\* computed from, row by row; Side is the width of the window
Side == 2 * radius + 1
\* the value of a zero-initialised output pixel
Zero == [j \in 0 .. Side * Side |-> 0]

Pixels(h, w) == (0 .. h - 1) \X (0 .. w - 1)
EmptyImg == [h |-> 0, w |-> 0, px |-> [p \in {} |-> Pad]]
\* the input image handed to enhance
InputImg(h, w) ==
    [h |-> h, w |-> w, px |-> [p \in Pixels(h, w) |-> p[1] * w + p[2] + 1]]

\* t[ys:ye, xs:xe] with Python's clamping of slice bounds (all bounds >= 0)
Slice(t, ys, ye, xs, xe) ==
    LET y0 == Min(ys, t.h)
        x0 == Min(xs, t.w)
        nh == Max(Min(ye, t.h) - y0, 0)
        nw == Max(Min(xe, t.w) - x0, 0)
    IN  [h |-> nh, w |-> nw,
         px |-> [p \in Pixels(nh, nw) |-> t.px[<<y0 + p[1], x0 + p[2]>>]]]

\* ------------------------------------------------------------- the network
\* what the output pixel over input pixel <<y, x>> of tensor t sees at
\* offset <<dy, dx>>
Seen(t, y, x, dy, dx) ==
    IF /\ y + dy >= 0 /\ y + dy < t.h
       /\ x + dx >= 0 /\ x + dx < t.w
    THEN t.px[<<y + dy, x + dx>>]
    ELSE Pad

\* the output pixel p of net_g(t)
NetPixel(t, p) ==
    [j \in 0 .. Side * Side |->
        IF j = 0 THEN (p[1] % scale) * scale + (p[2] % scale)
        ELSE Seen(t, p[1] \div scale, p[2] \div scale,
                  ((j - 1) \div Side) - radius, ((j - 1) % Side) - radius)]

\* net_g(t): an upscaled tensor of scale times the size of t
Net(t) ==
    [h |-> t.h * scale, w |-> t.w * scale,
     px |-> [p \in Pixels(t.h * scale, t.w * scale) |-> NetPixel(t, p)]]

\* --------------------------------------------------------------- padding
IsTorch == backend \in {"torch", "huggingface"}

\* source index of index i of an axis of length n padded at its end in
\* "reflect" mode (the edge is not repeated; numpy keeps reflecting when the
\* pad is longer than the axis and repeats the value of an axis of length 1)
ReflectIndex(i, n) ==
    IF i < n THEN i
    ELSE IF n = 1 THEN 0
    ELSE LET m == 2 * (n - 1)
             j == i % m
         IN  IF j < n THEN j ELSE m - j

\* F.pad / np.pad of t by pb rows at the bottom and pr columns at the right
ReflectPad(t, pb, pr) ==
    [h |-> t.h + pb, w |-> t.w + pr,
     px |-> [p \in Pixels(t.h + pb, t.w + pr) |->
                t.px[<<ReflectIndex(p[1], t.h), ReflectIndex(p[2], t.w)>>]]]

\* torch's reflect padding raises unless each pad is smaller than its axis
PadRaises(t, pb, pr) == IsTorch /\ (pb >= t.h \/ pr >= t.w)

ModScaleOf(s, old) == IF s = 2 THEN 2 ELSE IF s = 1 THEN 4 ELSE old
ModPad(n, m) == IF n % m # 0 THEN m - (n % m) ELSE 0

\* ------------------------------------------------------- RealESRGANer.__init__
Backends == {"torch", "onnx", "triton", "huggingface"}
\* outscale: <<>> is None, <<k>> is the float k / OutDen
NoOutscale == <<>>
Outscales == {NoOutscale} \cup {<<k>> : k \in 1 .. MaxOutNum}

\* the per-call state before enhance has run
RunStart ==
    /\ mod_scale = 0                      \* None
    /\ err = "none"
    /\ img = EmptyImg
    /\ mod_pad_h = 0
    /\ mod_pad_w = 0
    /\ output = EmptyImg
    /\ tiles_x = 0
    /\ tiles_y = 0
    /\ tx = 0
    /\ ty = 0
    /\ output_tile = EmptyImg              \* h = 0: the name is unbound
    /\ cover = [p \in {} |-> 0]
    /\ faulted = {}
    /\ out_h = 0
    /\ out_w = 0

\* the instance after construction, about to run enhance on an h x w image
InitWith(tiles, pads, radii, outs, budgets) ==
    /\ scale \in 1 .. MaxScale
    /\ tile_size \in tiles
    /\ tile_pad \in pads
    /\ pre_pad \in 0 .. MaxPrePad
    /\ outscale \in outs
    /\ backend \in Backends
    /\ radius \in radii
    /\ fault_budget \in budgets
    /\ h_input \in 1 .. MaxDim
    /\ w_input \in 1 .. MaxDim
    /\ pc = "pre_process"
    /\ RunStart

\* no enhance call is made
NoEnhance ==
    /\ scale = 1
    /\ tile_size = 0
    /\ tile_pad = 0
    /\ pre_pad = 0
    /\ outscale = NoOutscale
    /\ backend = "torch"
    /\ radius = 0
    /\ fault_budget = 0
    /\ h_input = 1
    /\ w_input = 1
    /\ pc = "idle"
    /\ RunStart

Raise(e) ==
    /\ pc' = "error"
    /\ err' = e

\* --------------------------------------- pre_process / pre_process_numpy
PrePadded(t) == IF pre_pad # 0 THEN ReflectPad(t, pre_pad, pre_pad) ELSE t

PreProcess ==
    /\ pc = "pre_process"
    /\ LET t0 == InputImg(h_input, w_input)
           t1 == PrePadded(t0)
           ms == ModScaleOf(scale, mod_scale)
           mh == IF ms # 0 THEN ModPad(t1.h, ms) ELSE mod_pad_h
           mw == IF ms # 0 THEN ModPad(t1.w, ms) ELSE mod_pad_w
       IN  IF pre_pad # 0 /\ PadRaises(t0, pre_pad, pre_pad)
           THEN /\ Raise("RuntimeError: padding")
                /\ UNCHANGED <<img, mod_scale, mod_pad_h, mod_pad_w>>
           ELSE IF ms # 0 /\ PadRaises(t1, mh, mw)
           THEN /\ Raise("RuntimeError: padding")
                /\ img' = t1
                /\ mod_scale' = ms
                /\ mod_pad_h' = mh
                /\ mod_pad_w' = mw
           ELSE /\ pc' = "infer"
                /\ err' = err
                /\ img' = IF ms # 0 THEN ReflectPad(t1, mh, mw) ELSE t1
                /\ mod_scale' = ms
                /\ mod_pad_h' = mh
                /\ mod_pad_w' = mw
    /\ UNCHANGED <<readervars, writervars, loadvars>>
    /\ UNCHANGED <<cfgvars, h_input, w_input, output, tiles_x, tiles_y, tx, ty,
                   output_tile, cover, faulted, out_h, out_w>>

\* ----------------------------------------------------------------- process
\* the backend may raise on any call, fault_budget times in a run
FaultChoices ==
    IF Cardinality(faulted) < fault_budget THEN BOOLEAN ELSE {FALSE}

Process ==
    /\ pc = "infer"
    /\ tile_size <= 0
    /\ \E fault \in FaultChoices :
          IF fault
          THEN /\ Raise("RuntimeError: inference")
               /\ faulted' = faulted \cup {0}
               /\ output' = output
          ELSE /\ pc' = "post_process"
               /\ err' = err
               /\ faulted' = faulted
               /\ output' = Net(img)
    /\ UNCHANGED <<readervars, writervars, loadvars>>
    /\ UNCHANGED <<cfgvars, h_input, w_input, img, mod_scale, mod_pad_h,
                   mod_pad_w, tiles_x, tiles_y, tx, ty, output_tile, cover,
                   out_h, out_w>>

\* ------------------------------------------------------------ tile_process
\* a grid that rounds the tile count down
TilesCount_Floor(n, T) == n \div T
\* math.ceil(n / T)
TilesCount(n, T) == (n + T - 1) \div T
InputEnd(ofs, T, n) == Min(ofs + T, n)
InputStartPad(start, P) == Max(start - P, 0)
\* a padded end that is not clamped to the image
InputEndPad_NoClamp(end, P, n) == end + P
InputEndPad(end, P, n) == Min(end + P, n)
OutputStart(start) == start * scale
OutputEnd(end) == end * scale
\* a crop that forgets the padding in front of the tile
OutputStartTile_NoPad(start, start_pad) == 0
OutputStartTile(start, start_pad) == (start - start_pad) * scale
OutputEndTile(start_tile, size) == start_tile + size * scale

\* tile_idx of tile (x, y)
TileIdx(x, y) == y * tiles_x + x + 1

\* the rectangles of tile (x, y) of the image self.img
Tile(x, y) ==
    LET isx == x * tile_size
        isy == y * tile_size
        iex == InputEnd(isx, tile_size, img.w)
        iey == InputEnd(isy, tile_size, img.h)
        isxp == InputStartPad(isx, tile_pad)
        iexp == InputEndPad(iex, tile_pad, img.w)
        isyp == InputStartPad(isy, tile_pad)
        ieyp == InputEndPad(iey, tile_pad, img.h)
        osxt == OutputStartTile(isx, isxp)
        osyt == OutputStartTile(isy, isyp)
    IN  [input_start_x |-> isx, input_end_x |-> iex,
         input_start_y |-> isy, input_end_y |-> iey,
         input_start_x_pad |-> isxp, input_end_x_pad |-> iexp,
         input_start_y_pad |-> isyp, input_end_y_pad |-> ieyp,
         output_start_x |-> OutputStart(isx), output_end_x |-> OutputEnd(iex),
         output_start_y |-> OutputStart(isy), output_end_y |-> OutputEnd(iey),
         output_start_x_tile |-> osxt,
         output_end_x_tile |-> OutputEndTile(osxt, iex - isx),
         output_start_y_tile |-> osyt,
         output_end_y_tile |-> OutputEndTile(osyt, iey - isy)]

\* p is a pixel of self.output[ys:ye, xs:xe]
InSlice(p, ys, ye, xs, xe) ==
    /\ p[1] >= ys /\ p[1] < ye
    /\ p[2] >= xs /\ p[2] < xe
\* p is in the output region of the tile with rectangles r
InRegion(p, r) ==
    InSlice(p, r.output_start_y, r.output_end_y,
            r.output_start_x, r.output_end_x)
\* the shape of the slice self.output[ys:ye, xs:xe]
Extent(s, e, n) == Max(Min(e, n) - Min(s, n), 0)

\* a tensor of shape (rh, rw) can be assigned to a slice of shape (th, tw)
\* when each of its axes has the slice's length or length 1 (broadcast)
Assignable(rh, rw, th, tw) == rh \in {th, 1} /\ rw \in {tw, 1}

\* lines 256-276: the checks and the zero accumulator
TileProcessStart ==
    /\ pc = "infer"
    /\ tile_size > 0
    /\ IF backend \in {"onnx", "triton"}
       THEN /\ Raise("NotImplementedError")
            /\ UNCHANGED <<output, tiles_x, tiles_y, cover>>
       ELSE /\ pc' = IF TilesCount(img.w, tile_size) = 0
                         \/ TilesCount(img.h, tile_size) = 0
                      THEN "post_process" ELSE "tile_loop"
            /\ err' = err
            /\ output' = [h |-> img.h * scale, w |-> img.w * scale,
                          px |-> [p \in Pixels(img.h * scale, img.w * scale)
                                     |-> Zero]]
            /\ tiles_x' = TilesCount(img.w, tile_size)
            /\ tiles_y' = TilesCount(img.h, tile_size)
            /\ cover' = [p \in Pixels(img.h * scale, img.w * scale) |-> 0]
    /\ tx' = 0
    /\ ty' = 0
    /\ UNCHANGED <<readervars, writervars, loadvars>>
    /\ UNCHANGED <<cfgvars, h_input, w_input, img, mod_scale, mod_pad_h,
                   mod_pad_w, output_tile, faulted, out_h, out_w>>

\* lines 279-335: one iteration of the loop, for tile (tx, ty)
TileStep ==
    /\ pc = "tile_loop"
    /\ \E fault \in FaultChoices :
          LET r == Tile(tx, ty)
              input_tile == Slice(img, r.input_start_y_pad, r.input_end_y_pad,
                                  r.input_start_x_pad, r.input_end_x_pad)
              \* a RuntimeError is caught and printed: output_tile keeps
              \* the value of the previous iteration, if it has one
              ot == IF fault THEN output_tile ELSE Net(input_tile)
              rhs == Slice(output_tile', r.output_start_y_tile,
                           r.output_end_y_tile, r.output_start_x_tile,
                           r.output_end_x_tile)
              th == Extent(r.output_start_y, r.output_end_y, output.h)
              tw == Extent(r.output_start_x, r.output_end_x, output.w)
              last == tx + 1 = tiles_x /\ ty + 1 = tiles_y
          IN  /\ faulted' = IF fault THEN faulted \cup {TileIdx(tx, ty)}
                                     ELSE faulted
              /\ output_tile' = ot
              /\ IF output_tile'.h = 0
                 THEN /\ Raise("UnboundLocalError")
                      /\ UNCHANGED <<output, cover, tx, ty>>
                 ELSE IF ~Assignable(rhs.h, rhs.w, th, tw)
                 THEN /\ Raise("RuntimeError: shape mismatch")
                      /\ UNCHANGED <<output, cover, tx, ty>>
                 ELSE /\ output' =
                           [output EXCEPT !.px =
                               [p \in DOMAIN output.px |->
                                   IF InRegion(p, r)
                                   THEN rhs.px[<<
                                     IF rhs.h = 1 THEN 0
                                     ELSE p[1] - r.output_start_y,
                                     IF rhs.w = 1 THEN 0
                                     ELSE p[2] - r.output_start_x>>]
                                   ELSE output.px[p]]]
                      /\ cover' = [p \in DOMAIN cover |->
                                      IF InRegion(p, r) THEN cover[p] + 1
                                      ELSE cover[p]]
                      /\ tx' = IF tx + 1 = tiles_x THEN 0 ELSE tx + 1
                      /\ ty' = IF tx + 1 = tiles_x THEN ty + 1 ELSE ty
                      /\ pc' = IF last THEN "post_process" ELSE "tile_loop"
                      /\ err' = err
    /\ UNCHANGED <<readervars, writervars, loadvars>>
    /\ UNCHANGED <<cfgvars, h_input, w_input, img, mod_scale, mod_pad_h,
                   mod_pad_w, tiles_x, tiles_y, out_h, out_w>>

\* ------------------------------------------------------------- post_process
\* output[:, :, 0 : h - pad * scale, 0 : w - pad * scale]
RemovePad(t, ph, pw) == Slice(t, 0, t.h - ph * scale, 0, t.w - pw * scale)

PostProcessed(t) ==
    LET t1 == IF mod_scale # 0 THEN RemovePad(t, mod_pad_h, mod_pad_w) ELSE t
    IN  IF pre_pad # 0 THEN RemovePad(t1, pre_pad, pre_pad) ELSE t1

PostProcess ==
    /\ pc = "post_process"
    /\ output' = PostProcessed(output)
    /\ pc' = "convert"
    /\ UNCHANGED <<readervars, writervars, loadvars>>
    /\ UNCHANGED <<cfgvars, err, h_input, w_input, img, mod_scale, mod_pad_h,
                   mod_pad_w, tiles_x, tiles_y, tx, ty, output_tile, cover,
                   faulted, out_h, out_w>>

\* ------------------------------------------- enhance, lines 401-478
\* round(n * outscale), halves rounded up
Rescaled_Round(n, k) == (2 * n * k + OutDen) \div (2 * OutDen)
\* int(n * outscale), for outscale = k / OutDen
Rescaled(n, k) == (n * k) \div OutDen
\* self.outscale is not None and self.outscale != float(self.scale)
Rescales == outscale # NoOutscale /\ outscale # <<scale * OutDen>>

Return ==
    /\ pc = "convert"
    /\ IF output.h = 1 \/ output.w = 1
       THEN \* squeeze() drops the axis too, and the [[2, 1, 0], :, :] fails
            /\ Raise("IndexError")
            /\ UNCHANGED <<out_h, out_w>>
       ELSE IF Rescales /\ (Rescaled(h_input, outscale[1]) = 0
                            \/ Rescaled(w_input, outscale[1]) = 0)
       THEN \* cv2.resize refuses an empty dsize
            /\ Raise("cv2.error")
            /\ UNCHANGED <<out_h, out_w>>
       ELSE /\ pc' = "done"
            /\ err' = err
            /\ out_h' = IF Rescales THEN Rescaled(h_input, outscale[1])
                                    ELSE output.h
            /\ out_w' = IF Rescales THEN Rescaled(w_input, outscale[1])
                                    ELSE output.w
    /\ UNCHANGED <<readervars, writervars, loadvars>>
    /\ UNCHANGED <<cfgvars, h_input, w_input, img, mod_scale, mod_pad_h,
                   mod_pad_w, output, tiles_x, tiles_y, tx, ty, output_tile,
                   cover, faulted>>

\* ------------------------------------------------------------------ claims
\* the tile loop has run to its end
TilingDone == tile_size > 0 /\ pc \in {"post_process", "convert", "done"}
\* the grid position of the tile with index k
TileX(k) == (k - 1) % tiles_x
TileY(k) == (k - 1) \div tiles_x
\* the tiles whose iteration has completed
Processed ==
    IF pc = "tile_loop" THEN 1 .. (TileIdx(tx, ty) - 1)
    ELSE IF pc = "post_process" /\ tile_size > 0 THEN 1 .. (tiles_x * tiles_y)
    ELSE {}

\* C1: the output regions written by tile_process are the rectangles
\* [x*T*scale, min((x+1)*T, width)*scale) x [y*T*scale, min((y+1)*T, height)*scale),
\* no output pixel is ever written twice, and when the loop has ended every
\* pixel of the (height*scale) x (width*scale) accumulator was written once.
C1_RegionsTileOutput ==
    /\ pc = "tile_loop" =>
          LET r == Tile(tx, ty)
          IN  /\ r.output_start_x = tx * tile_size * scale
              /\ r.output_end_x = Min((tx + 1) * tile_size, img.w) * scale
              /\ r.output_start_y = ty * tile_size * scale
              /\ r.output_end_y = Min((ty + 1) * tile_size, img.h) * scale
              /\ tx < tiles_x /\ ty < tiles_y
    /\ \A p \in DOMAIN cover : cover[p] <= 1
    /\ TilingDone =>
          /\ DOMAIN cover = Pixels(img.h * scale, img.w * scale)
          /\ \A p \in DOMAIN cover : cover[p] = 1

\* a finished tiling of a grid of at least 2 x 2 tiles whose last row and
\* column are ragged, with padding and upscaling
C1_Witness ==
    /\ TilingDone
    /\ tiles_x >= 2 /\ tiles_y >= 2
    /\ img.w % tile_size # 0 /\ img.h % tile_size # 0
    /\ tile_pad >= 1 /\ scale >= 2

\* C2 (as claimed): a fault on a tile never ends the run, and the region of
\* every tile that faulted holds zeros.
C2_FaultLeavesZeros ==
    (tile_size > 0 /\ faulted # {}) =>
        /\ ~(pc = "error" /\ err \in {"UnboundLocalError",
                                      "RuntimeError: shape mismatch"})
        /\ \A k \in faulted \cap Processed :
              \A p \in DOMAIN output.px :
                  InRegion(p, Tile(TileX(k), TileY(k))) => output.px[p] = Zero

\* C3 (as claimed): when no call faults, tiled inference equals direct
\* inference on the same padded image, for every tile size and tile pad.
C3_TiledEqualsDirectAlways ==
    (tile_size > 0 /\ pc = "post_process" /\ faulted = {}) => output = Net(img)

\* C3 (amended): when no call faults, tiled inference equals direct inference
\* on the same padded image if the network's receptive radius is at most
\* tile_pad, or if the grid is a single tile.
C3_TiledEqualsDirect ==
    (/\ tile_size > 0 /\ pc = "post_process" /\ faulted = {}
     /\ (radius <= tile_pad \/ (tiles_x = 1 /\ tiles_y = 1)))
    => output = Net(img)

\* a multi-tile run of a network that looks one pixel around, padded by one
C3_Witness ==
    /\ tile_size > 0 /\ pc = "post_process" /\ faulted = {}
    /\ tiles_x >= 2 /\ tiles_y >= 2
    /\ radius = 1 /\ tile_pad = 1 /\ scale >= 2
    /\ output = Net(img)

\* C4 (as claimed): for every input size, pre_pad and scale, pre_process (or
\* pre_process_numpy), inference and post_process yield exactly
\* (h*scale) x (w*scale), cropped from the bottom and right only.
C4_PaddingRoundTrip ==
    /\ ~(pc = "error" /\ err = "RuntimeError: padding")
    /\ pc = "convert" =>
          /\ output.h = h_input * scale
          /\ output.w = w_input * scale
          /\ (tile_size <= 0 /\ faulted = {}) =>
                \A p \in DOMAIN output.px : output.px[p] = Net(img).px[p]

Abs(n) == IF n < 0 THEN -n ELSE n

\* C10 (as claimed): under an output-scale override the returned image is
\* round(w_input * outscale) wide and round(h_input * outscale) high (the
\* nearest integers; either neighbour of an exact half is accepted).
C10_OutputIsRounded ==
    (pc = "done" /\ Rescales) =>
        /\ 2 * Abs(out_w * OutDen - w_input * outscale[1]) <= OutDen
        /\ 2 * Abs(out_h * OutDen - h_input * outscale[1]) <= OutDen

\* C10 (amended): under an output-scale override, an enhance that returns
\* returns an image int(w_input * outscale) wide and int(h_input * outscale)
\* high: the products truncated, from the original input dimensions.
C10_OutputIsTruncated ==
    (pc = "done" /\ Rescales) =>
        /\ out_w * OutDen <= w_input * outscale[1]
        /\ w_input * outscale[1] < (out_w + 1) * OutDen
        /\ out_h * OutDen <= h_input * outscale[1]
        /\ h_input * outscale[1] < (out_h + 1) * OutDen

\* a returned override whose products are not whole and differ from scale
C10_Witness ==
    /\ pc = "done" /\ Rescales
    /\ (w_input * outscale[1]) % OutDen = 3
    /\ (h_input * outscale[1]) % OutDen = 2
    /\ out_w # output.w
    /\ pre_pad > 0

\* the padded input rectangle [sp, ep) holds the input rectangle [s, e),
\* reaches at most tile_pad beyond it on each side and stays within [0, n)
PadWithin(s, e, sp, ep, n) ==
    /\ sp <= s /\ e <= ep
    /\ s - sp <= tile_pad /\ ep - e <= tile_pad
    /\ 0 <= sp /\ ep <= n
\* the crop [st, et) of a raw tile output starts at (s - sp) * scale, has
\* the size of the input tile times scale, lies within the raw output of
\* scale times the padded tile size and has the size of the destination
\* self.output[os:oe] on an accumulator axis of length n
CropWithin(s, e, sp, ep, st, et, os, oe, n) ==
    /\ st = (s - sp) * scale
    /\ et - st = (e - s) * scale
    /\ 0 <= st /\ et <= (ep - sp) * scale
    /\ et - st = Extent(os, oe, n)
\* the tile whose iteration completed last
LastProcessed == Max(TileIdx(tx, ty) - 1, 0)

\* C11: for every tile of tile_process the padded input rectangle contains
\* the unpadded one, extends it by at most tile_pad on each side and lies
\* within [0, width) x [0, height); the sub-rectangle copied out of the raw
\* tile output starts at (input_start - input_start_pad)*scale, has the input
\* tile size times scale, lies inside the raw tile output of scale times the
\* padded tile size, and has the size of the destination region.
C11_TileRectangles ==
    (tile_size > 0 /\ pc \in {"tile_loop", "post_process"}) =>
        /\ \A k \in 1 .. (tiles_x * tiles_y) :
              LET r == Tile(TileX(k), TileY(k))
              IN  /\ PadWithin(r.input_start_x, r.input_end_x,
                               r.input_start_x_pad, r.input_end_x_pad, img.w)
                  /\ PadWithin(r.input_start_y, r.input_end_y,
                               r.input_start_y_pad, r.input_end_y_pad, img.h)
                  /\ CropWithin(r.input_start_x, r.input_end_x,
                                r.input_start_x_pad, r.input_end_x_pad,
                                r.output_start_x_tile, r.output_end_x_tile,
                                r.output_start_x, r.output_end_x, output.w)
                  /\ CropWithin(r.input_start_y, r.input_end_y,
                                r.input_start_y_pad, r.input_end_y_pad,
                                r.output_start_y_tile, r.output_end_y_tile,
                                r.output_start_y, r.output_end_y, output.h)
        /\ (pc = "tile_loop" /\ LastProcessed >= 1) =>
              LET r == Tile(TileX(LastProcessed), TileY(LastProcessed))
              IN  /\ output_tile.w
                        = (r.input_end_x_pad - r.input_start_x_pad) * scale
                  /\ output_tile.h
                        = (r.input_end_y_pad - r.input_start_y_pad) * scale

\* the loop stands after a tile in the middle of a row of three: its padded
\* rectangle reaches over both neighbours, and the next tile's padded
\* rectangle is cut at the right edge of the image
C11_Witness ==
    /\ pc = "tile_loop" /\ LastProcessed >= 1
    /\ tile_pad >= 1 /\ scale >= 2
    /\ LET r == Tile(TileX(LastProcessed), TileY(LastProcessed))
           n == Tile(tx, ty)
       IN  /\ r.input_start_x_pad < r.input_start_x
           /\ r.input_end_x < r.input_end_x_pad
           /\ r.output_start_x_tile > 0
           /\ r.output_end_x_tile < output_tile.w
           /\ n.input_end_x_pad = n.input_end_x
           /\ n.input_end_x = img.w
           /\ n.input_start_x_pad < n.input_start_x

\* ============================================================ PrefetchReader
\* cv2.imread returns None for a path it cannot decode; img_list[i] tells
\* whether path i decodes, and the image decoded from path i is i
None == 0
Imread(i) == IF img_list[i] THEN i ELSE None

\* a queue that never fills
Full_Never(q) == FALSE
\* queue.Queue(maxsize).full(): a maxsize <= 0 makes the queue unbounded
Full(q) == num_prefetch_queue > 0 /\ Len(q) >= num_prefetch_queue

InitReader ==
    /\ img_list \in UNION {[1 .. n -> BOOLEAN] : n \in 0 .. MaxImgs}
    /\ num_prefetch_queue \in 0 .. MaxDepth
    /\ que = <<>>
    /\ rpc = "run"
    /\ ri = 1
    /\ cpc = "idle"
    /\ pulls = 0
    /\ after_end = FALSE
    /\ yielded = <<>>
    /\ stops = 0
    /\ late_yield = FALSE

\* run, lines 495-497: one iteration; put blocks while the queue is full
RunPut ==
    /\ rpc = "run"
    /\ ri <= Len(img_list)
    /\ ~Full(que)
    /\ que' = Append(que, Imread(ri))
    /\ ri' = ri + 1
    /\ UNCHANGED <<img_list, num_prefetch_queue, rpc, cpc, pulls, after_end,
                   yielded, stops, late_yield>>
    /\ UNCHANGED <<enhancevars, writervars, loadvars>>

\* run, line 499
RunPutSentinel ==
    /\ rpc = "run"
    /\ ri > Len(img_list)
    /\ ~Full(que)
    /\ que' = Append(que, None)
    /\ rpc' = "done"
    /\ UNCHANGED <<img_list, num_prefetch_queue, ri, cpc, pulls, after_end,
                   yielded, stops, late_yield>>
    /\ UNCHANGED <<enhancevars, writervars, loadvars>>

\* the consuming thread calls __next__ and enters que.get()
CallNext ==
    /\ cpc = "idle"
    /\ pulls < MaxPulls
    /\ cpc' = "get"
    /\ pulls' = pulls + 1
    /\ after_end' = (stops >= 1)
    /\ UNCHANGED <<img_list, num_prefetch_queue, que, rpc, ri, yielded, stops,
                   late_yield>>
    /\ UNCHANGED <<enhancevars, writervars, loadvars>>

\* __next__, lines 502-505: get blocks while the queue is empty
NextReturn ==
    /\ cpc = "get"
    /\ que # <<>>
    /\ que' = Tail(que)
    /\ cpc' = "idle"
    /\ IF Head(que) = None
       THEN /\ stops' = stops + 1                      \* raise StopIteration
            /\ UNCHANGED <<yielded, late_yield>>
       ELSE /\ yielded' = Append(yielded, Head(que))   \* return next_item
            /\ late_yield' = (late_yield \/ after_end)
            /\ stops' = stops
    /\ UNCHANGED <<img_list, num_prefetch_queue, rpc, ri, pulls, after_end>>
    /\ UNCHANGED <<enhancevars, writervars, loadvars>>

\* C5 (as claimed): the images are yielded in path order, one per path, the
\* end of the sequence is signalled only after the last image of the list
\* was yielded, and a sentinel is observed once.
C5_OrderedThenEnd ==
    /\ Len(yielded) <= Len(img_list)
    /\ \A i \in 1 .. Len(yielded) : yielded[i] = i
    /\ stops >= 1 => Len(yielded) = Len(img_list)
    /\ stops <= 1

\* C6 (as claimed): a pull made after the sentinel was consumed never yields
\* an image and never blocks: it is not left waiting on the empty queue of a
\* producer that has finished.
C6_PullAfterEndStops ==
    /\ ~late_yield
    /\ ~(cpc = "get" /\ after_end /\ que = <<>> /\ rpc = "done")

\* C8 (as claimed): for every queue depth, the queue never holds more than
\* num_prefetch_queue items.
C8_BoundedForEveryDepth == Len(que) <= num_prefetch_queue

\* C8 (amended): for every queue depth >= 1 the queue never holds more than
\* num_prefetch_queue items, and while it holds that many the producer can
\* push neither an image nor the sentinel; a depth <= 0 makes it unbounded.
C8_BoundedForPositiveDepth ==
    num_prefetch_queue >= 1 =>
        /\ Len(que) <= num_prefetch_queue
        /\ Len(que) = num_prefetch_queue =>
              ~ENABLED (RunPut \/ RunPutSentinel)

\* the producer is held back by a full queue with paths left to read
C8_Witness ==
    /\ num_prefetch_queue >= 1
    /\ Len(que) = num_prefetch_queue
    /\ rpc = "run"
    /\ ri <= Len(img_list)
    /\ yielded # <<>>

\* ================================================================ IOConsumer
\* the messages on the shared queue: {"output", "save_path"} dicts, told
\* apart by their save_path, and the string "quit"
Item(i) == [kind |-> "item", save_path |-> i]
Quit == [kind |-> "quit", save_path |-> 0]
\* isinstance(msg, str) and msg == "quit"
IsQuit(m) == m.kind = "quit"

\* a get that leaves the message on the queue
QueueGet_Peek(q) == q
\* the queue after queue.get() has returned its head to one caller
QueueGet(q) == Tail(q)

Workers == 1 .. workers

\* what the feeding thread puts: the items, then the "quit" markers
Feed(n, q) == [i \in 1 .. n + q |-> IF i <= n THEN Item(i) ELSE Quit]

InitWriter ==
    /\ workers \in 1 .. MaxWorkers
    /\ n_items \in 0 .. MaxItems
    /\ n_quits \in 0 .. workers
    /\ to_put = Feed(n_items, n_quits)
    /\ io_queue = <<>>
    /\ wpc = [w \in Workers |-> "get"]
    /\ msg = [w \in Workers |-> Quit]
    /\ written = <<>>
    /\ quit_pulled = [w \in Workers |-> FALSE]

\* the feeding thread's que.put(...), blocking while the queue is full
FeedPut ==
    /\ to_put # <<>>
    /\ Len(io_queue) < MaxIoQueue
    /\ io_queue' = Append(io_queue, Head(to_put))
    /\ to_put' = Tail(to_put)
    /\ UNCHANGED <<workers, n_items, n_quits, wpc, msg, written, quit_pulled>>
    /\ UNCHANGED <<enhancevars, readervars, loadvars>>

\* run, lines 520-525: get a message; "quit" ends the loop
WorkerGet(w) ==
    /\ wpc[w] = "get"
    /\ io_queue # <<>>
    /\ io_queue' = QueueGet(io_queue)
    /\ IF IsQuit(Head(io_queue))
       THEN /\ wpc' = [wpc EXCEPT ![w] = "done"]
            /\ quit_pulled' = [quit_pulled EXCEPT ![w] = TRUE]
            /\ msg' = msg
       ELSE /\ wpc' = [wpc EXCEPT ![w] = "write"]
            /\ msg' = [msg EXCEPT ![w] = Head(io_queue)]
            /\ quit_pulled' = quit_pulled
    /\ UNCHANGED <<workers, n_items, n_quits, to_put, written>>
    /\ UNCHANGED <<enhancevars, readervars, loadvars>>

\* run, line 526: cv2.imwrite(save_path, output)
WorkerWrite(w) ==
    /\ wpc[w] = "write"
    /\ written' = Append(written, <<w, msg[w].save_path>>)
    /\ wpc' = [wpc EXCEPT ![w] = "get"]
    /\ UNCHANGED <<workers, n_items, n_quits, to_put, io_queue, msg,
                   quit_pulled>>
    /\ UNCHANGED <<enhancevars, readervars, loadvars>>

\* how often item i is on the queue, in a worker's hands, and on storage
OnQueue(i) == Cardinality({k \in 1 .. Len(io_queue) : io_queue[k] = Item(i)})
InHand(i) == Cardinality({w \in Workers : wpc[w] = "write" /\ msg[w] = Item(i)})
Writes(i) == Cardinality({k \in 1 .. Len(written) : written[k][2] = i})
\* item i has been put on the queue
WasPut(i) == i <= (n_items + n_quits) - Len(to_put)

WriterSafe ==
    /\ \A i \in 1 .. n_items :
          /\ Writes(i) <= 1
          /\ WasPut(i) => OnQueue(i) + InHand(i) + Writes(i) = 1
          /\ ~WasPut(i) => OnQueue(i) + InHand(i) + Writes(i) = 0
    /\ \A w \in Workers : wpc[w] = "done" <=> quit_pulled[w]
AllWritten == \A i \in 1 .. n_items : Writes(i) = 1
AllDone == \A w \in Workers : wpc[w] = "done"

\* C7: every item put on the shared queue is, at any moment, on the queue, in
\* the hands of one worker or written once, and never written twice; a worker
\* is done exactly when it has pulled "quit"; and if one "quit" per worker
\* follows the items, eventually every item is written and every worker done.
C7_WriterProtocol ==
    /\ []WriterSafe
    /\ (n_quits = workers) ~> (AllWritten /\ AllDone)

\* two workers that both wrote, all items written, all workers done
C7_Witness ==
    /\ workers >= 2 /\ n_items >= 2 /\ n_quits = workers
    /\ AllWritten /\ AllDone
    /\ \E j, k \in 1 .. Len(written) : written[j][1] # written[k][1]

\* ============================================ RealESRGANer.__init__, dni mode
\* a checkpoint maps some of the keys "params_ema" and "params" to a state
\* dict; the tensor of parameter i of a state dict seeded v is v + i
Keys == {"params_ema", "params"}
StateDict(n, v) == [i \in 1 .. n |-> v + i]
Checkpoints(n) ==
    UNION {[ks -> {StateDict(n, v) : v \in 0 .. MaxVal}] :
              ks \in (SUBSET Keys) \ {{}}}

InitLoad ==
    /\ \E n \in 1 .. MaxParams :
          /\ file_a \in Checkpoints(n)
          /\ file_b \in Checkpoints(n)
    /\ dni_weight \in (0 .. MaxWeight) \X (0 .. MaxWeight)
    /\ net_a = file_a
    /\ dpc = "dni"
    /\ todo = {}
    /\ keyname = "none"
    /\ loaded = <<>>

\* dni_weight[0] * v_a + dni_weight[1] * v_b
Blend(v_a, v_b) == dni_weight[1] * v_a + dni_weight[2] * v_b

\* the key whose state dict dni interpolates: its default argument
DniKey == "params"

\* dni, lines 160-162: load both checkpoints, enter the loop over net_a[key]
DniLoad ==
    /\ dpc = "dni"
    /\ net_a' = file_a
    /\ IF DniKey \in DOMAIN file_a
       THEN /\ dpc' = "blend"
            /\ todo' = DOMAIN file_a[DniKey]
       ELSE /\ dpc' = "KeyError"
            /\ todo' = todo
    /\ UNCHANGED <<file_a, file_b, dni_weight, keyname, loaded>>
    /\ UNCHANGED <<enhancevars, readervars, writervars>>

\* dni, line 163: one iteration, in the dict's order
DniBlend ==
    /\ dpc = "blend"
    /\ LET k == CHOOSE i \in todo : \A j \in todo : i <= j
       IN  IF DniKey \in DOMAIN file_b
           THEN /\ net_a' = [net_a EXCEPT ![DniKey][k] =
                                Blend(net_a[DniKey][k], file_b[DniKey][k])]
                /\ todo' = todo \ {k}
                /\ dpc' = IF todo = {k} THEN "select" ELSE "blend"
           ELSE /\ dpc' = "KeyError"
                /\ UNCHANGED <<net_a, todo>>
    /\ UNCHANGED <<file_a, file_b, dni_weight, keyname, loaded>>
    /\ UNCHANGED <<enhancevars, readervars, writervars>>

\* lines 105-109: prefer to use params_ema
KeyName(loadnet) ==
    IF "params_ema" \in DOMAIN loadnet THEN "params_ema" ELSE "params"

\* lines 105-110: model.load_state_dict(loadnet[keyname], strict=True)
LoadStateDict ==
    /\ dpc = "select"
    /\ keyname' = KeyName(net_a)
    /\ loaded' = net_a[KeyName(net_a)]
    /\ dpc' = "loaded"
    /\ UNCHANGED <<file_a, file_b, dni_weight, net_a, todo>>
    /\ UNCHANGED <<enhancevars, readervars, writervars>>

\* C9 (as claimed): whichever keys the checkpoints contain, every parameter
\* loaded into the model is w0*a + w1*b for the corresponding parameters a
\* and b of the two checkpoints.
C9_LoadedIsBlend ==
    dpc = "loaded" =>
        /\ keyname \in DOMAIN file_b
        /\ \A i \in DOMAIN loaded :
              loaded[i] = dni_weight[1] * file_a[keyname][i]
                          + dni_weight[2] * file_b[keyname][i]

\* ------------------------------------------------------------ specifications
\* no PrefetchReader is created
NoReader ==
    /\ img_list = <<>>
    /\ num_prefetch_queue = 0
    /\ que = <<>>
    /\ rpc = "idle"
    /\ ri = 1
    /\ cpc = "none"
    /\ pulls = 0
    /\ after_end = FALSE
    /\ yielded = <<>>
    /\ stops = 0
    /\ late_yield = FALSE

\* no IOConsumer is created
NoWriter ==
    /\ workers = 0
    /\ n_items = 0
    /\ n_quits = 0
    /\ to_put = <<>>
    /\ io_queue = <<>>
    /\ wpc = <<>>
    /\ msg = <<>>
    /\ written = <<>>
    /\ quit_pulled = <<>>

\* no checkpoint is loaded
NoLoad ==
    /\ file_a = <<>>
    /\ file_b = <<>>
    /\ dni_weight = <<0, 0>>
    /\ net_a = <<>>
    /\ dpc = "idle"
    /\ todo = {}
    /\ keyname = "none"
    /\ loaded = <<>>

EnhanceNext ==
    \/ PreProcess
    \/ Process
    \/ TileProcessStart
    \/ TileStep
    \/ PostProcess
    \/ Return

\* enhance without an output-scale override, over every tiling, on a backend
\* that does not fail
InitTile ==
    /\ InitWith(0 .. MaxTile, 0 .. MaxTilePad, 0 .. MaxRadius, {NoOutscale},
                {0})
    /\ NoReader /\ NoWriter /\ NoLoad
SpecTile == InitTile /\ [][EnhanceNext]_vars

\* the same on a backend that fails up to MaxFaults of its calls
InitFault ==
    /\ InitWith(0 .. MaxTile, 0 .. MaxTilePad, 0 .. MaxRadius, {NoOutscale},
                0 .. MaxFaults)
    /\ NoReader /\ NoWriter /\ NoLoad
SpecFault == InitFault /\ [][EnhanceNext]_vars

\* enhance under every output-scale override, direct or with the largest tile
InitScale ==
    /\ InitWith({0, MaxTile}, {0}, {0}, Outscales, {0})
    /\ NoReader /\ NoWriter /\ NoLoad
SpecScale == InitScale /\ [][EnhanceNext]_vars

\* a PrefetchReader thread and the thread iterating it
ReaderNext ==
    \/ RunPut
    \/ RunPutSentinel
    \/ CallNext
    \/ NextReturn
InitPrefetch == InitReader /\ NoEnhance /\ NoWriter /\ NoLoad
SpecReader == InitPrefetch /\ [][ReaderNext]_vars

\* IOConsumer threads on one queue and the thread feeding it; every thread
\* that can take a step is eventually scheduled
WriterNext ==
    \/ FeedPut
    \/ \E w \in Workers : WorkerGet(w)
    \/ \E w \in Workers : WorkerWrite(w)
InitIO == InitWriter /\ NoEnhance /\ NoReader /\ NoLoad
SpecWriter ==
    /\ InitIO
    /\ [][WriterNext]_vars
    /\ WF_vars(FeedPut)
    /\ \A w \in 1 .. MaxWorkers :
          WF_vars(w \in Workers /\ WorkerGet(w))
          /\ WF_vars(w \in Workers /\ WorkerWrite(w))

\* the construction of a RealESRGANer from two checkpoints
LoadNext ==
    \/ DniLoad
    \/ DniBlend
    \/ LoadStateDict
InitDni == InitLoad /\ NoEnhance /\ NoReader /\ NoWriter
SpecLoad == InitDni /\ [][LoadNext]_vars

\* the whole program: one of the components above, each run on its own
Init == InitTile \/ InitFault \/ InitScale \/ InitPrefetch \/ InitIO \/ InitDni
Next == EnhanceNext \/ ReaderNext \/ WriterNext \/ LoadNext
Spec == Init /\ [][Next]_vars

====
